---- MODULE Spec2Model ----
(***************************************************************************)
(* A model of nonsense.py: the Markov-chain builder (tokenizer, prefix     *)
(* window, occurrence counting, probabilities), the sqlite cache that      *)
(* keeps the chain between runs, the sampler and the sentence generator.   *)
(*                                                                         *)
(* Strings are sequences of one-character strings, so that lower-casing,   *)
(* capitalising, joining, the length of a string and its last character    *)
(* are computed as the code computes them.  None and the empty string,     *)
(* which the code never tells apart (it only tests them for truth), are    *)
(* both the empty sequence.                                                *)
(***************************************************************************)
EXTENDS Integers, Sequences, FiniteSets, TLC

VARIABLES
    corpus,             \* the text of the input file
    lookback,           \* self.lookback; with the input path, the cache identity
    args,               \* the arguments of the outermost generate_sentence call
    disk,               \* the committed contents of the cache database file
    conn,               \* the database as the open connection sees it
    no_cache,           \* this run uses an in-memory database
    pc,                 \* the process's position
    exc,                \* the exception that ended the run, if any
    runs,               \* the number of runs started so far
    reads,              \* the number of times the corpus was opened and read
    rebuilt,            \* this run took input()'s rebuild branch
    completed,          \* a build has run to its end on the cache file
    matches,            \* the matches of WORD_RE in the text
    counter,            \* the scan loop's counter
    word_count_estimate,
    prev_prefixes,
    unsaved_suffixes,
    start_word,         \* the current generate_sentence frame
    min_words,
    max_length,
    prevent_recursion,
    retried,            \* the current frame is a recursive retry
    word_queue,
    out,
    sampled,            \* the last direct call of choose_next_word
    write_every,        \* the module's WRITE_TO_DB_AFTER_NUM_WORDS
    cli_pc,             \* __main__'s position in its argument handling
    cli_args,           \* __main__'s args list
    cli_opts            \* the options __main__ has set, and source

vars == <<corpus, lookback, args, disk, conn, no_cache, pc, exc, runs, reads,
          rebuilt, completed, matches, counter, word_count_estimate,
          prev_prefixes, unsaved_suffixes, start_word, min_words, max_length,
          prevent_recursion, retried, word_queue, out, sampled, write_every,
          cli_pc, cli_args, cli_opts>>

buildVars == <<matches, counter, word_count_estimate, prev_prefixes,
               unsaved_suffixes>>

frameVars == <<start_word, min_words, max_length, prevent_recursion, retried,
               word_queue, out>>

cliVars == <<cli_pc, cli_args, cli_opts>>

\* what no step of the chain's life changes
inputVars == <<corpus, lookback, args, write_every, cliVars>>

(***************************************************************************)
(* Bounds of the model.                                                    *)
(***************************************************************************)
MaxWords == 3
MaxLookback == 3
MaxRuns == 2
MaxQueue == 5
RandomGrid == 3

(***************************************************************************)
(* Program constants.                                                      *)
(***************************************************************************)
WRITE_TO_DB_AFTER_NUM_WORDS == 2000
DefaultMinWords == 5
DefaultMaxLength == 140
ProgressSteps == 10
EscapeOdds == 10

(***************************************************************************)
(* Characters and strings.                                                 *)
(***************************************************************************)
LowerLetters == <<"a", "b", "c", "d", "e", "g", "h", "n", "o", "r", "s", "t", "u">>
UpperLetters == <<"A", "B", "C", "D", "E", "G", "H", "N", "O", "R", "S", "T", "U">>
Digits == {"1"}

Range(s) == {s[i] : i \in 1..Len(s)}

IndexOf(s, c) == CHOOSE i \in 1..Len(s) : s[i] = c

\* unicode.lower() on one character
LowerChar(c) == IF c \in Range(UpperLetters) THEN LowerLetters[IndexOf(UpperLetters, c)] ELSE c

UpperChar(c) == IF c \in Range(LowerLetters) THEN UpperLetters[IndexOf(LowerLetters, c)] ELSE c

Lower(s) == [i \in 1..Len(s) |-> LowerChar(s[i])]

\* unicode.capitalize(): the first character upper-cased, the rest lower-cased
Capitalize(s) == [i \in 1..Len(s) |-> IF i = 1 THEN UpperChar(s[i]) ELSE LowerChar(s[i])]

Last(s) == s[Len(s)]

RECURSIVE Join(_)
\* " ".join(words)
Join(words) ==
    IF words = <<>> THEN <<>>
    ELSE IF Len(words) = 1 THEN words[1]
    ELSE words[1] \o <<" ">> \o Join(Tail(words))

\* words[-n:]
LastN(words, n) == SubSeq(words, Len(words) - n + 1, Len(words))

\* s.find(c) != -1
Contains(s, c) == \E i \in 1..Len(s) : s[i] = c

\* s.count(c)
RECURSIVE CountChar(_, _)
CountChar(s, c) ==
    IF s = <<>> THEN 0
    ELSE (IF s[1] = c THEN 1 ELSE 0) + CountChar(Tail(s), c)

None == <<>>
Root == <<"^">>

(***************************************************************************)
(* The tokenizer.                                                          *)
(***************************************************************************)
\* the character class of WORD_RE, [\w\.\!\,]
IsWordChar(c) ==
    \/ c \in Range(LowerLetters) \cup Range(UpperLetters) \cup Digits \cup {"_"}
    \/ c \in {".", "!", ","}

RECURSIVE FindAll(_, _, _)
\* re.finditer(WORD_RE, input): the maximal runs of word characters, in order
FindAll(text, cur, acc) ==
    IF text = <<>> THEN (IF cur = <<>> THEN acc ELSE Append(acc, cur))
    ELSE IF IsWordChar(text[1]) THEN FindAll(Tail(text), Append(cur, text[1]), acc)
    ELSE FindAll(Tail(text), <<>>, IF cur = <<>> THEN acc ELSE Append(acc, cur))

Tokenize(text) == FindAll(text, <<>>, <<>>)

\* NoRealWord matching digits only
NoRealWordDigits(word) == \A i \in 1..Len(word) : word[i] \in Digits

\* re.match(NO_REAL_WORD_RE, word): only digits, periods, commas, colons, semicolons
NoRealWord(word) == \A i \in 1..Len(word) : word[i] \in Digits \cup {".", ",", ":", ";"}

\* input.count(' ') + 1
WordCountEstimate(text) == CountChar(text, " ") + 1

(***************************************************************************)
(* The scan loop's body.                                                   *)
(***************************************************************************)
\* the (prefix, word) tuples one real word adds to unsaved_suffixes
NewSuffixes(prefixes, word) ==
    [i \in 1..Len(prefixes) |-> <<prefixes[i], word>>]
    \o (IF prefixes # <<>> /\ Last(Last(prefixes)) = "." THEN << <<Root, word>> >> ELSE <<>>)

\* AdvanceWindow without the pop of the longest prefix
AdvanceWindowUnbounded(prefixes, word, L) ==
    [i \in 1..Len(prefixes) |-> prefixes[i] \o <<" ">> \o word] \o <<word>>

\* AdvanceWindow popping the shortest prefix, the last of the list
AdvanceWindowPopLast(prefixes, word, L) ==
    LET kept == IF Len(prefixes) >= L THEN SubSeq(prefixes, 1, Len(prefixes) - 1) ELSE prefixes
    IN  [i \in 1..Len(kept) |-> kept[i] \o <<" ">> \o word] \o <<word>>

\* prev_prefixes after one real word: the longest prefix is popped when there
\* are lookback of them, the word is appended to the others and added alone
AdvanceWindow(prefixes, word, L) ==
    LET kept == IF Len(prefixes) >= L THEN Tail(prefixes) ELSE prefixes
    IN  [i \in 1..Len(kept) |-> kept[i] \o <<" ">> \o word] \o <<word>>

\* if counter % WRITE_TO_DB_AFTER_NUM_WORDS == 0
FlushDue(count, every) == count % every = 0

\* StillUnsaved with the list emptied on every iteration, flushed or not
StillUnsavedCleared(pending, flushed) == <<>>

\* unsaved_suffixes at the end of an iteration: emptied only after a flush
StillUnsaved(pending, flushed) == IF flushed THEN <<>> ELSE pending

(***************************************************************************)
(* The database.                                                           *)
(***************************************************************************)
Null == <<0, 0>>

EmptyDb == [chain_exists |-> FALSE, chain |-> {}, temp_exists |-> FALSE, temp |-> <<>>]

\* TableExists finding no table, whatever the database holds
TableMissing(db) == FALSE

\* SELECT name FROM sqlite_master WHERE type='table' AND name='markov_chain'
\* returns a row
TableExists(db) == db.chain_exists

\* save_suffixes: INSERT INTO markov_chain_temp (prefix, suffix), one row a tuple
SaveSuffixes(db, suffixes) == [db EXCEPT !.temp = @ \o suffixes]

\* count(*) of one (prefix, suffix) group of markov_chain_temp
CountPair(temp, pair) == Cardinality({i \in 1..Len(temp) : temp[i] = pair})

\* SELECT prefix, suffix, count(*) FROM markov_chain_temp GROUP BY prefix, suffix
GroupCount(temp) ==
    {[prefix |-> pair[1], suffix |-> pair[2],
      num_occurrences |-> CountPair(temp, pair), probability |-> Null]
        : pair \in Range(temp)}

RECURSIVE SumOccurrences(_)
\* sum(num_occurrences) over rows
SumOccurrences(rows) ==
    IF rows = {} THEN 0
    ELSE LET row == CHOOSE r \in rows : TRUE
         IN  row.num_occurrences + SumOccurrences(rows \ {row})

\* Total without its GROUP BY: the sum over the whole table
TotalOfTable(chain, prefix) == SumOccurrences(chain)

\* Total as count(*) in place of sum(num_occurrences)
TotalRows(chain, prefix) == Cardinality({row \in chain : row.prefix = prefix})

\* SELECT prefix, sum(num_occurrences) FROM markov_chain GROUP BY prefix: the
\* sum of one prefix's group
Total(chain, prefix) == SumOccurrences({row \in chain : row.prefix = prefix})

\* UPDATE markov_chain SET probability=((1.0*num_occurrences)/?) WHERE prefix=?
\* for every group: the quotient is kept as the pair <<dividend, divisor>>
WithProbabilities(chain) ==
    {[row EXCEPT !.probability = <<row.num_occurrences, Total(chain, row.prefix)>>]
        : row \in chain}

(***************************************************************************)
(* The sampler.                                                            *)
(***************************************************************************)
\* Selected with the rows of the table deleted
SelectedDeleting(db) == [db EXCEPT !.chain = {}]

\* the database after the SELECT of choose_next_word: a query changes no row
Selected(db) == db

\* random.random(): a value k/RandomGrid of [0, 1), kept as the pair <<k, RandomGrid>>
Draws == {<<k, RandomGrid>> : k \in 0..(RandomGrid - 1)}

RECURSIVE Orders(_)
\* ORDER BY RANDOM(): every order of the selected rows
Orders(rows) ==
    IF rows = {} THEN {<<>>}
    ELSE UNION {{<<row>> \o order : order \in Orders(rows \ {row})} : row \in rows}

RECURSIVE FirstReaching(_, _, _)
\* the loop of choose_next_word: i accumulates the probabilities (a fraction
\* <<dividend, divisor>>); the first suffix with i >= random_choice is returned,
\* and None when the rows run out
FirstReaching(order, i, random_choice) ==
    IF order = <<>> THEN None
    ELSE LET p == order[1].probability
             acc == <<i[1] * p[2] + p[1] * i[2], i[2] * p[2]>>
         IN  IF acc[1] * random_choice[2] >= random_choice[1] * acc[2]
             THEN order[1].suffix
             ELSE FirstReaching(Tail(order), acc, random_choice)

\* SelectByPrefix without its WHERE clause
SelectAll(db, from_prefix) == db.chain

\* SELECT suffix, probability FROM markov_chain WHERE prefix=?
SelectByPrefix(db, from_prefix) == {row \in db.chain : row.prefix = from_prefix}

\* every value choose_next_word(from_prefix) can return
ChooseNextWord(db, from_prefix) ==
    {FirstReaching(order, <<0, 1>>, r)
        : order \in Orders(SelectByPrefix(db, from_prefix)), r \in Draws}

(***************************************************************************)
(* The sentence generator's growth loop.                                   *)
(***************************************************************************)
RECURSIVE Suggestions(_, _, _)
\* the for loop over num_words_to_try = n, n-1, .., 1: every value suggestion
\* can hold when the loop ends (None: no window gave a continuation)
Suggestions(db, queue, n) ==
    IF n = 0 THEN {None}
    ELSE IF Len(queue) >= n
    THEN LET found == ChooseNextWord(db, Join(LastN(queue, n)))
         IN  (found \ {None}) \cup (IF None \in found THEN Suggestions(db, queue, n - 1) ELSE {})
    ELSE Suggestions(db, queue, n - 1)

\* the quality gate's condition; Python parses "A or B and not C" as
\* A or (B and not C)
MustRetry(words, text, minw, maxl, prevent) ==
    Len(words) < minw \/ (Len(text) > maxl /\ ~prevent)

(***************************************************************************)
(* Inputs.                                                                 *)
(***************************************************************************)
\* a word, a word that ends a sentence, a token that is no real word
Alphabet == {<<"a">>, <<"b", ".">>, <<"1", ".">>}

WordSeqs(n) == UNION {[1..k -> Alphabet] : k \in 0..n}

Pad(k) == [i \in 1..k |-> " "]

\* no leading spaces, or as many as make the estimated word count reach ProgressSteps
Paddings == {0, ProgressSteps - 1}

CatsDogs == <<"C", "a", "t", "s", " ", "r", "u", "n", ".", " ",
              "D", "o", "g", "s", " ", "r", "u", "n", ".">>

\* a corpus whose chain can end a sentence of DefaultMinWords words: "B. a A a b."
LoopText ==
    Pad(ProgressSteps - 1)
    \o Join(<< <<"B", ".">>, <<"a">>, <<"A">>, <<"a">>, <<"b", ".">> >>)

\* a corpus without a word after a period (no root-prefix row): "a b."
NoRootText == Pad(ProgressSteps - 1) \o Join(<< <<"a">>, <<"b", ".">> >>)

\* a corpus whose sentences stall: "b. a"
StallText == Pad(ProgressSteps - 1) \o Join(<< <<"b", ".">>, <<"a">> >>)

Texts ==
    {Pad(k) \o Join(ws) : k \in Paddings, ws \in WordSeqs(MaxWords)}
    \cup {CatsDogs, LoopText}

TheCat == <<"T", "h", "e", " ", "c", "a", "t", " ", "s", "a", "t", ".", " ",
            "T", "h", "e", " ", "d", "o", "g", " ", "r", "a", "n", ".">>

GenTexts == {LoopText, NoRootText, StallText, CatsDogs, TheCat}

\* generate_sentence() as __main__ calls it without options
ArgSets ==
    [start_word : {None}, min_words : {DefaultMinWords}, max_length : {DefaultMaxLength}]

GenArgSets ==
    [start_word : {None, <<"a">>, <<"A">>, <<"z">>, <<"b", ".">>, <<"t", "h", "e">>},
     min_words : {1, DefaultMinWords},
     max_length : {3, DefaultMaxLength}]

\* __main__'s default arguments, and source before it is set
DefaultOpts ==
    [start_word |-> "", max_length |-> "140", lookback |-> "3",
     no_cache |-> FALSE, only_cache |-> FALSE, source |-> ""]

NoSample == [called |-> FALSE, prefix |-> None, result |-> None]

(***************************************************************************)
(* The state machine.                                                      *)
(***************************************************************************)
InitWith(texts, argsets, intervals) ==
    /\ corpus \in texts
    /\ lookback \in 1..MaxLookback
    /\ args \in argsets
    /\ write_every \in intervals
    /\ disk = EmptyDb
    /\ conn = EmptyDb
    /\ no_cache = FALSE
    /\ pc = "start"
    /\ exc = "none"
    /\ runs = 0
    /\ reads = 0
    /\ rebuilt = FALSE
    /\ completed = FALSE
    /\ matches = <<>>
    /\ counter = 0
    /\ word_count_estimate = 0
    /\ prev_prefixes = <<>>
    /\ unsaved_suffixes = <<>>
    /\ start_word = None
    /\ min_words = DefaultMinWords
    /\ max_length = DefaultMaxLength
    /\ prevent_recursion = FALSE
    /\ retried = FALSE
    /\ word_queue = <<>>
    /\ out = <<>>
    /\ sampled = NoSample

\* the argument handling of __main__ is not followed
CliIdle ==
    /\ cli_pc = "idle"
    /\ cli_args = <<>>
    /\ cli_opts = DefaultOpts

Init == InitWith(Texts, ArgSets, {WRITE_TO_DB_AFTER_NUM_WORDS}) /\ CliIdle

InitGen == InitWith(GenTexts, GenArgSets, {WRITE_TO_DB_AFTER_NUM_WORDS}) /\ CliIdle

\* what the database file holds once db is committed
Committed(db) == IF no_cache THEN disk ELSE db

Raise(e) ==
    /\ pc' = "raised"
    /\ exc' = e

\* __main__ constructs MarkovChain: __init__ connects to ":memory:" or to the
\* cache file of (input_file, lookback)
Connect ==
    /\ pc = "start"
    /\ runs < MaxRuns
    /\ runs' = runs + 1
    /\ \E nc \in BOOLEAN :
        /\ no_cache' = nc
        /\ conn' = IF nc THEN EmptyDb ELSE disk
    /\ pc' = "input"
    /\ UNCHANGED <<inputVars, disk, exc, reads, rebuilt, completed, buildVars,
                   frameVars, sampled>>

\* input(): the table is there, nothing is rebuilt
InputCached ==
    /\ pc = "input"
    /\ TableExists(conn)
    /\ pc' = "ready"
    /\ UNCHANGED <<inputVars, disk, conn, no_cache, exc, runs, reads, rebuilt,
                   completed, buildVars, frameVars, sampled>>

\* input(): no table; init_database() creates it (sqlite3 runs a CREATE TABLE
\* outside any transaction, so it is on disk at once)
InputRebuild ==
    /\ pc = "input"
    /\ ~TableExists(conn)
    /\ conn' = [conn EXCEPT !.chain_exists = TRUE]
    /\ disk' = Committed(conn')
    /\ rebuilt' = TRUE
    /\ pc' = "open"
    /\ UNCHANGED <<inputVars, no_cache, exc, runs, reads, completed, buildVars,
                   frameVars, sampled>>

\* open(input_file) fails
OpenFails ==
    /\ pc = "open"
    /\ Raise("IOError")
    /\ UNCHANGED <<inputVars, disk, conn, no_cache, runs, reads, rebuilt,
                   completed, buildVars, frameVars, sampled>>

\* the file is read; generate_markov_chain starts: the temporary table is
\* dropped and created, the loop's variables are set
OpenCorpus ==
    /\ pc = "open"
    /\ reads' = reads + 1
    /\ conn' = [conn EXCEPT !.temp_exists = TRUE, !.temp = <<>>]
    /\ disk' = Committed(conn')
    /\ word_count_estimate' = WordCountEstimate(corpus)
    /\ matches' = Tokenize(corpus)
    /\ prev_prefixes' = <<>>
    /\ unsaved_suffixes' = <<>>
    /\ counter' = 0
    /\ pc' = "scan"
    /\ UNCHANGED <<inputVars, no_cache, exc, runs, rebuilt, completed,
                   frameVars, sampled>>

ThisWord == Lower(matches[counter + 1])

\* a real word when word_count_estimate/10 is 0: counter % 0 raises
ScanRaises ==
    /\ pc = "scan"
    /\ counter < Len(matches)
    /\ ~NoRealWord(ThisWord)
    /\ word_count_estimate \div ProgressSteps = 0
    /\ Raise("ZeroDivisionError")
    /\ UNCHANGED <<inputVars, disk, conn, no_cache, runs, reads, rebuilt,
                   completed, buildVars, frameVars, sampled>>

\* one iteration of the scan loop
ScanWord ==
    /\ pc = "scan"
    /\ counter < Len(matches)
    /\ NoRealWord(ThisWord) \/ word_count_estimate \div ProgressSteps # 0
    /\ LET real == ~NoRealWord(ThisWord)
           pending == IF real
                      THEN unsaved_suffixes \o NewSuffixes(prev_prefixes, ThisWord)
                      ELSE unsaved_suffixes
           flush == FlushDue(counter, write_every)
       IN  /\ prev_prefixes' = IF real
                               THEN AdvanceWindow(prev_prefixes, ThisWord, lookback)
                               ELSE prev_prefixes
           /\ conn' = IF flush THEN SaveSuffixes(conn, pending) ELSE conn
           /\ unsaved_suffixes' = StillUnsaved(pending, flush)
    /\ counter' = counter + 1
    /\ UNCHANGED <<inputVars, disk, no_cache, pc, exc, runs, reads, rebuilt,
                   completed, matches, word_count_estimate, frameVars, sampled>>

\* after the loop: the last suffixes are saved and committed, the temporary
\* rows are grouped into markov_chain (UNIQUE (prefix, suffix)), the temporary
\* table is dropped
CountOccurrences ==
    /\ pc = "scan"
    /\ counter = Len(matches)
    /\ LET saved == SaveSuffixes(conn, unsaved_suffixes)
           groups == GroupCount(saved.temp)
           clash == \E g \in groups, row \in conn.chain :
                        g.prefix = row.prefix /\ g.suffix = row.suffix
       IN  IF clash
           THEN /\ conn' = saved
                /\ disk' = Committed(saved)
                /\ Raise("IntegrityError")
           ELSE /\ conn' = [saved EXCEPT !.chain = @ \cup groups,
                                         !.temp_exists = FALSE, !.temp = <<>>]
                /\ disk' = Committed(conn')
                /\ pc' = "prob"
                /\ exc' = exc
    /\ unsaved_suffixes' = <<>>
    /\ UNCHANGED <<inputVars, no_cache, runs, reads, rebuilt, completed, matches,
                   counter, word_count_estimate, prev_prefixes, frameVars, sampled>>

\* the probabilities are set and committed; generate_markov_chain returns
CalcProbabilities ==
    /\ pc = "prob"
    /\ conn' = [conn EXCEPT !.chain = WithProbabilities(@)]
    /\ disk' = Committed(conn')
    /\ completed' = (completed \/ ~no_cache)
    /\ pc' = "ready"
    /\ UNCHANGED <<inputVars, no_cache, exc, runs, reads, rebuilt, buildVars,
                   frameVars, sampled>>

SamplePrefixes == {row.prefix : row \in conn.chain} \cup {Root, <<"a">>, <<"A">>, <<"z">>}

\* a direct call of choose_next_word on the constructed chain
Sample ==
    /\ pc = "ready"
    /\ \E p \in SamplePrefixes : \E res \in ChooseNextWord(conn, p) :
        sampled' = [called |-> TRUE, prefix |-> p, result |-> res]
    /\ conn' = Selected(conn)
    /\ UNCHANGED <<inputVars, disk, no_cache, pc, exc, runs, reads, rebuilt,
                   completed, buildVars, frameVars>>

\* __main__ calls generate_sentence
Call ==
    /\ pc = "ready"
    /\ start_word' = args.start_word
    /\ min_words' = args.min_words
    /\ max_length' = args.max_length
    /\ prevent_recursion' = FALSE
    /\ retried' = FALSE
    /\ word_queue' = <<>>
    /\ out' = <<>>
    /\ sampled' = NoSample
    /\ pc' = "seed"
    /\ UNCHANGED <<inputVars, disk, conn, no_cache, exc, runs, reads, rebuilt,
                   completed, buildVars>>

\* the first words of the queue; first_word.capitalize() raises on None
Seed ==
    /\ pc = "seed"
    /\ \E first \in (IF start_word # None
                     THEN ChooseNextWord(conn, Lower(start_word))
                     ELSE {None}) :
        IF first # None
        THEN /\ word_queue' = <<start_word, first>>
             /\ out' = Capitalize(start_word) \o <<" ">> \o first
             /\ pc' = "grow"
             /\ exc' = exc
        ELSE \E again \in ChooseNextWord(conn, IF start_word # None THEN start_word ELSE Root) :
                IF again # None
                THEN /\ word_queue' = <<again>>
                     /\ out' = Capitalize(again)
                     /\ pc' = "grow"
                     /\ exc' = exc
                ELSE /\ Raise("AttributeError")
                     /\ UNCHANGED <<word_queue, out>>
    /\ conn' = Selected(conn)
    /\ UNCHANGED <<inputVars, disk, no_cache, runs, reads, rebuilt, completed,
                   buildVars, start_word, min_words, max_length, prevent_recursion,
                   retried, sampled>>

\* one iteration of the while loop that appends a suggestion
GrowStep ==
    /\ pc = "grow"
    /\ ~Contains(Last(word_queue), ".")
    /\ Len(word_queue) < MaxQueue
    /\ \E k \in 1..lookback : \E suggestion \in Suggestions(conn, word_queue, k) :
        /\ suggestion # None
        /\ word_queue' = Append(word_queue, suggestion)
    /\ conn' = Selected(conn)
    /\ UNCHANGED <<inputVars, disk, no_cache, pc, exc, runs, reads, rebuilt,
                   completed, buildVars, start_word, min_words, max_length,
                   prevent_recursion, retried, out, sampled>>

\* the loop ends (its condition fails, or no suggestion: break); out is the
\* queue joined
GrowEnd ==
    /\ pc = "grow"
    /\ \/ Contains(Last(word_queue), ".")
       \/ \E k \in 1..lookback : None \in Suggestions(conn, word_queue, k)
    /\ out' = Join(word_queue)
    /\ pc' = "gate"
    /\ conn' = Selected(conn)
    /\ UNCHANGED <<inputVars, disk, no_cache, exc, runs, reads, rebuilt,
                   completed, buildVars, start_word, min_words, max_length,
                   prevent_recursion, retried, word_queue, sampled>>

\* the quality gate lets the sentence through: generate_sentence returns out
\* (every enclosing retry frame returns it unchanged)
GateReturn ==
    /\ pc = "gate"
    /\ ~MustRetry(word_queue, out, min_words, max_length, prevent_recursion)
    /\ pc' = "done"
    /\ UNCHANGED <<inputVars, disk, conn, no_cache, exc, runs, reads, rebuilt,
                   completed, buildVars, frameVars, sampled>>

\* the quality gate retries: generate_sentence(prevent_recursion=random()*10 < 1),
\* every other parameter at its default
GateRetry ==
    /\ pc = "gate"
    /\ MustRetry(word_queue, out, min_words, max_length, prevent_recursion)
    /\ \E r \in Draws : prevent_recursion' = (r[1] * EscapeOdds < r[2])
    /\ start_word' = None
    /\ min_words' = DefaultMinWords
    /\ max_length' = DefaultMaxLength
    /\ retried' = TRUE
    /\ word_queue' = <<>>
    /\ out' = <<>>
    /\ pc' = "seed"
    /\ UNCHANGED <<inputVars, disk, conn, no_cache, exc, runs, reads, rebuilt,
                   completed, buildVars, sampled>>

\* the process ends (the sentence printed, or an exception uncaught); what the
\* connection had not committed is lost
Exit ==
    /\ pc \in {"done", "raised"}
    /\ runs < MaxRuns
    /\ pc' = "start"
    /\ exc' = "none"
    /\ conn' = EmptyDb
    /\ no_cache' = FALSE
    /\ rebuilt' = FALSE
    /\ matches' = <<>>
    /\ counter' = 0
    /\ word_count_estimate' = 0
    /\ prev_prefixes' = <<>>
    /\ unsaved_suffixes' = <<>>
    /\ start_word' = None
    /\ min_words' = DefaultMinWords
    /\ max_length' = DefaultMaxLength
    /\ prevent_recursion' = FALSE
    /\ retried' = FALSE
    /\ word_queue' = <<>>
    /\ out' = <<>>
    /\ sampled' = NoSample
    /\ UNCHANGED <<inputVars, disk, runs, reads, completed>>

Next ==
    \/ Connect
    \/ InputCached
    \/ InputRebuild
    \/ OpenFails
    \/ OpenCorpus
    \/ ScanRaises
    \/ ScanWord
    \/ CountOccurrences
    \/ CalcProbabilities
    \/ Sample
    \/ Call
    \/ Seed
    \/ GrowStep
    \/ GrowEnd
    \/ GateReturn
    \/ GateRetry
    \/ Exit

Spec == Init /\ [][Next]_vars

\* the same program on a few corpora, generate_sentence called with every
\* combination of start word, min_words and max_length
SpecGen == InitGen /\ [][Next]_vars

(***************************************************************************)
(* The program with WRITE_TO_DB_AFTER_NUM_WORDS set to other values.       *)
(***************************************************************************)
MaxInterval == 3

FlushIntervals == 1..MaxInterval \cup {WRITE_TO_DB_AFTER_NUM_WORDS}

FlushTexts == {LoopText, NoRootText, StallText, CatsDogs}

InitFlush == InitWith(FlushTexts, ArgSets, FlushIntervals) /\ CliIdle

SpecFlush == InitFlush /\ [][Next]_vars

(***************************************************************************)
(* The argument handling of __main__, one action per "if ... in args"      *)
(* block.  Command lines follow the usage line: flags, each with its       *)
(* value, then the input file.                                             *)
(***************************************************************************)
MaxFlags == 2

InputFile == "in.txt"

ValueFlags == {"--lookback", "--startword", "--min-length", "--max-length"}

BareFlags == {"--no-cache", "--only-cache"}

Flags == ValueFlags \cup BareFlags

FlagValue(f) ==
    CASE f = "--lookback" -> "2"
      [] f = "--startword" -> "Hello"
      [] f = "--min-length" -> "20"
      [] f = "--max-length" -> "300"

FlagOrders ==
    {o \in UNION {[1..n -> Flags] : n \in 0..MaxFlags} :
        \A i, j \in 1..Len(o) : o[i] = o[j] => i = j}

RECURSIVE Expand(_)
Expand(o) ==
    IF o = <<>> THEN <<>>
    ELSE (IF Head(o) \in ValueFlags THEN <<Head(o), FlagValue(Head(o))>> ELSE <<Head(o)>>)
         \o Expand(Tail(o))

CommandLines == {<<>>} \cup {Expand(o) \o <<InputFile>> : o \in FlagOrders}

\* "x in args", args.index(x), del args[i]
In(x, a) == \E i \in 1..Len(a) : a[i] = x

Index(a, x) == CHOOSE i \in 1..Len(a) : a[i] = x /\ \A j \in 1..(i - 1) : a[j] # x

Del(a, i) == SubSeq(a, 1, i - 1) \o SubSeq(a, i + 1, Len(a))

programVars ==
    <<corpus, lookback, args, write_every, disk, conn, no_cache, pc, exc, runs,
      reads, rebuilt, completed, buildVars, frameVars, sampled>>

InitCli ==
    /\ InitWith({<<>>}, ArgSets, {WRITE_TO_DB_AFTER_NUM_WORDS})
    /\ cli_pc = "argv"
    /\ cli_args \in CommandLines
    /\ cli_opts = DefaultOpts

\* lines 171-173 and 183
CliUsage ==
    /\ cli_pc = "argv"
    /\ cli_pc' = IF Len(cli_args) < 1 THEN "usage" ELSE "startword"
    /\ UNCHANGED <<cli_args, cli_opts, programVars>>

\* a flag whose value is read at args[i+1] and which is deleted with it
TakeBoth(flag, field, next) ==
    IF In(flag, cli_args)
    THEN LET i == Index(cli_args, flag)
         IN  IF i + 1 > Len(cli_args)
             THEN /\ cli_pc' = "IndexError"
                  /\ UNCHANGED <<cli_args, cli_opts>>
             ELSE /\ cli_opts' = [cli_opts EXCEPT ![field] = cli_args[i + 1]]
                  /\ cli_args' = Del(Del(cli_args, i + 1), i)
                  /\ cli_pc' = next
    ELSE /\ cli_pc' = next
         /\ UNCHANGED <<cli_args, cli_opts>>

CliStartword ==
    /\ cli_pc = "startword"
    /\ TakeBoth("--startword", "start_word", "max-length")
    /\ UNCHANGED programVars

CliMaxLength ==
    /\ cli_pc = "max-length"
    /\ TakeBoth("--max-length", "max_length", "lookback")
    /\ UNCHANGED programVars

\* only the value is deleted: "--lookback" itself stays in args
CliLookback ==
    /\ cli_pc = "lookback"
    /\ IF In("--lookback", cli_args)
       THEN LET i == Index(cli_args, "--lookback")
            IN  IF i + 1 > Len(cli_args)
                THEN /\ cli_pc' = "IndexError"
                     /\ UNCHANGED <<cli_args, cli_opts>>
                ELSE /\ cli_opts' = [cli_opts EXCEPT !.lookback = cli_args[i + 1]]
                     /\ cli_args' = Del(cli_args, i + 1)
                     /\ cli_pc' = "no-cache"
       ELSE /\ cli_pc' = "no-cache"
            /\ UNCHANGED <<cli_args, cli_opts>>
    /\ UNCHANGED programVars

\* a flag without a value
TakeBare(flag, field) ==
    IF In(flag, cli_args)
    THEN /\ cli_opts' = [cli_opts EXCEPT ![field] = TRUE]
         /\ cli_args' = Del(cli_args, Index(cli_args, flag))
    ELSE UNCHANGED <<cli_args, cli_opts>>

CliNoCache ==
    /\ cli_pc = "no-cache"
    /\ TakeBare("--no-cache", "no_cache")
    /\ cli_pc' = "only-cache"
    /\ UNCHANGED programVars

CliOnlyCache ==
    /\ cli_pc = "only-cache"
    /\ TakeBare("--only-cache", "only_cache")
    /\ cli_pc' = "source"
    /\ UNCHANGED programVars

\* source = args[0], the input_file handed to MarkovChain
CliSource ==
    /\ cli_pc = "source"
    /\ IF cli_args = <<>>
       THEN /\ cli_pc' = "IndexError"
            /\ UNCHANGED cli_opts
       ELSE /\ cli_opts' = [cli_opts EXCEPT !.source = cli_args[1]]
            /\ cli_pc' = "parsed"
    /\ UNCHANGED <<cli_args, programVars>>

NextCli ==
    \/ CliUsage
    \/ CliStartword
    \/ CliMaxLength
    \/ CliLookback
    \/ CliNoCache
    \/ CliOnlyCache
    \/ CliSource

SpecCli == InitCli /\ [][NextCli]_vars

(***************************************************************************)
(* What the claims speak of.                                               *)
(***************************************************************************)
RECURSIVE RealOf(_)
RealOf(ms) ==
    IF ms = <<>> THEN <<>>
    ELSE (IF NoRealWord(Lower(ms[1])) THEN <<>> ELSE <<Lower(ms[1])>>) \o RealOf(Tail(ms))

\* the corpus's sequence of real, lower-cased tokens
RealTokens == RealOf(Tokenize(corpus))

\* the (p, s) of every position where the n tokens p are followed by s, n <= L
Windows(R, L) ==
    UNION {{<<SubSeq(R, i, i + n - 1), R[i + n]>> : i \in 1..(Len(R) - n)} : n \in 1..L}

\* the number of positions of R where p occurs immediately followed by s
Occurrences(R, p, s) ==
    Cardinality({i \in 1..(Len(R) - Len(p)) :
                    SubSeq(R, i, i + Len(p) - 1) = p /\ R[i + Len(p)] = s})

\* the number of real tokens w whose preceding real token ends with "."
RootOccurrences(R, w) ==
    Cardinality({i \in 2..Len(R) : R[i] = w /\ Last(R[i - 1]) = "."})

\* the table holds exactly the occurrence counts of the corpus
HoldsCounts(chain) ==
    LET R == RealTokens
    IN  /\ \A win \in Windows(R, lookback) :
              /\ \E row \in chain : row.prefix = Join(win[1]) /\ row.suffix = win[2]
              /\ \A row \in chain :
                    row.prefix = Join(win[1]) /\ row.suffix = win[2]
                        => row.num_occurrences = Occurrences(R, win[1], win[2])
        /\ \A row \in chain :
              row.prefix # Root =>
                  /\ CountChar(row.prefix, " ") + 1 <= lookback
                  /\ \E win \in Windows(R, lookback) :
                        row.prefix = Join(win[1]) /\ row.suffix = win[2]

\* the root-prefix rows hold the counts of the words after a period
HoldsRootCounts(chain) ==
    LET R == RealTokens
    IN  /\ \A w \in Range(R) :
              IF RootOccurrences(R, w) = 0
              THEN ~\E row \in chain : row.prefix = Root /\ row.suffix = w
              ELSE /\ \E row \in chain : row.prefix = Root /\ row.suffix = w
                   /\ \A row \in chain :
                         row.prefix = Root /\ row.suffix = w
                             => row.num_occurrences = RootOccurrences(R, w)
        /\ \A row \in chain : row.prefix = Root => row.suffix \in Range(R)

GeneratorPcs == {"ready", "seed", "grow", "gate", "done"}

\* generate_markov_chain was called in this run and has returned
ChainBuilt ==
    rebuilt /\ (pc \in GeneratorPcs \/ (pc = "raised" /\ exc = "AttributeError"))

\* generate_markov_chain was called in this run and has ended, by returning or by raising
BuildOver ==
    rebuilt /\ (pc \in GeneratorPcs \/ (pc = "raised" /\ exc # "IOError"))

RECURSIVE SumDividends(_)
SumDividends(rows) ==
    IF rows = {} THEN 0
    ELSE LET row == CHOOSE r \in rows : TRUE
         IN  row.probability[1] + SumDividends(rows \ {row})

RECURSIVE SumCounts(_)
SumCounts(rows) ==
    IF rows = {} THEN 0
    ELSE LET row == CHOOSE r \in rows : TRUE
         IN  row.num_occurrences + SumCounts(rows \ {row})

(***************************************************************************)
(* C1: once generate_markov_chain has returned, for every n in 1..lookback *)
(* and every n tokens p followed by a token s somewhere in the corpus's    *)
(* real tokens, the row (p joined by spaces, s) holds the number of such   *)
(* positions; a pair that never occurs has no row; no row but the root     *)
(* rows has a prefix of more than lookback tokens.                         *)
(***************************************************************************)
C1_OccurrenceCounts == ChainBuilt => HoldsCounts(conn.chain)

C1_Witness ==
    /\ ChainBuilt
    /\ Len(RealTokens) > lookback
    /\ \E row \in conn.chain : row.num_occurrences >= 2
    /\ \E row \in conn.chain : row.prefix # Root /\ Contains(row.prefix, " ")

(***************************************************************************)
(* C2: once a build has completed, every row's divisor is the sum of       *)
(* num_occurrences over the rows of its prefix, its probability is its     *)
(* num_occurrences over that sum and is positive, no probability is unset, *)
(* and the probabilities of each prefix's suffixes sum to 1.               *)
(***************************************************************************)
C2_ProbabilitiesNormalized ==
    ChainBuilt =>
        \A row \in conn.chain :
            LET group == {other \in conn.chain : other.prefix = row.prefix}
            IN  /\ row.probability # Null
                /\ row.probability[2] = SumCounts(group)
                /\ row.probability[1] = row.num_occurrences
                /\ row.probability[1] > 0
                /\ SumDividends(group) = row.probability[2]

C2_Witness ==
    /\ ChainBuilt
    /\ \E row, other \in conn.chain :
        /\ row.prefix = other.prefix
        /\ row.suffix # other.suffix
        /\ row.num_occurrences > other.num_occurrences

(***************************************************************************)
(* C3: a retry made with prevent_recursion true returns its sentence       *)
(* without retrying again, whatever its word count and length.             *)
(***************************************************************************)
C3_EscapedRetryReturns == [][(pc = "gate" /\ prevent_recursion) => pc' # "seed"]_vars

(***************************************************************************)
(* C4: a sentence returned by generate_sentence(min_words=W, max_length=M) *)
(* has at least W words and at most M characters, or comes from a retry    *)
(* whose re-check was disabled.                                            *)
(***************************************************************************)
C4_ReturnedWithinCallersBounds ==
    pc = "done" =>
        \/ Len(word_queue) >= args.min_words /\ Len(out) <= args.max_length
        \/ retried /\ prevent_recursion

(***************************************************************************)
(* C5: a missing continuation, at the seed step or in the growth loop,     *)
(* never makes generate_sentence raise.                                    *)
(***************************************************************************)
C5_MissingContinuationNeverRaises == ~(pc = "raised" /\ exc = "AttributeError")

(***************************************************************************)
(* C6: when input() skips the build, markov_chain holds the complete       *)
(* result of a build: the occurrence counts of the corpus and the counts   *)
(* of its root-prefix rows.                                                *)
(***************************************************************************)
C6_SkipOnlyAfterCompleteBuild ==
    (pc = "ready" /\ ~rebuilt) =>
        (HoldsCounts(conn.chain) /\ HoldsRootCounts(conn.chain))

(***************************************************************************)
(* C7: once a build has completed on the cache file, input() of a run on   *)
(* that file goes straight to the constructed chain: the corpus is not     *)
(* read and no row of markov_chain changes.                                *)
(***************************************************************************)
C7_CachedInputReadsNothing ==
    [][(pc = "input" /\ ~no_cache /\ completed) =>
            /\ pc' = "ready"
            /\ reads' = reads
            /\ conn'.chain = conn.chain
            /\ disk' = disk]_vars

C7_Witness ==
    /\ pc = "ready"
    /\ ~rebuilt
    /\ ~no_cache
    /\ completed
    /\ runs = 2
    /\ reads = 1
    /\ conn.chain # {}

(***************************************************************************)
(* C8: the string generate_sentence returns is the final queue joined by   *)
(* single spaces with its first token capitalized.                         *)
(***************************************************************************)
C8_ReturnedCapitalized ==
    pc = "done" => out = Join(<<Capitalize(word_queue[1])>> \o Tail(word_queue))

(***************************************************************************)
(* C9: after a build the row ("^", w) counts the real tokens w whose       *)
(* preceding real token ends with "."; the build of "Cats run. Dogs run."  *)
(* yields the row ("^", "dogs").                                           *)
(***************************************************************************)
C9_RootPrefixRows ==
    /\ ChainBuilt => HoldsRootCounts(conn.chain)
    /\ (BuildOver /\ corpus = CatsDogs) =>
            \E row \in conn.chain :
                row.prefix = Root /\ row.suffix = <<"d", "o", "g", "s">>

(***************************************************************************)
(* C10: choose_next_word(prefix) returns None when no row has that prefix; *)
(* what it returns otherwise is the suffix of a row stored under exactly   *)
(* that prefix with a non-zero probability.                                *)
(***************************************************************************)
C10_SamplerBounded ==
    sampled.called =>
        LET rows == {row \in conn.chain : row.prefix = sampled.prefix}
        IN  /\ rows = {} => sampled.result = None
            /\ sampled.result # None =>
                   \E row \in rows :
                       /\ row.suffix = sampled.result
                       /\ row.probability[1] > 0
                       /\ row.probability[2] > 0

C10_Witness ==
    /\ sampled.called
    /\ sampled.result # None
    /\ \E row \in conn.chain :
        /\ row.prefix # sampled.prefix
        /\ \A mine \in conn.chain : mine.prefix = sampled.prefix => mine.suffix # row.suffix

(***************************************************************************)
(* C11: with the corpus "The cat sat. The dog ran." and lookback 2, the    *)
(* growth loop of generate_sentence(start_word="the") ends with a queue    *)
(* whose last token contains ".", after at most 50 appended tokens.        *)
(***************************************************************************)
C11_SeededLoopEndsAtPeriod ==
    ( /\ corpus = TheCat
      /\ lookback = 2
      /\ args.start_word = <<"t", "h", "e">>
      /\ ~retried
      /\ pc = "gate" \/ (pc = "raised" /\ exc = "AttributeError") )
    => /\ word_queue # <<>>
       /\ Contains(Last(word_queue), ".")
       /\ Len(word_queue) <= 2 + 50

(***************************************************************************)
(* C12: for every corpus, generate_markov_chain ends without raising and   *)
(* stores the table of the corpus's occurrence counts, as it would without *)
(* the progress reporting.                                                 *)
(***************************************************************************)
C12_ProgressIsObservational ==
    BuildOver =>
        /\ exc # "ZeroDivisionError"
        /\ HoldsCounts(conn.chain)
        /\ HoldsRootCounts(conn.chain)

(***************************************************************************)
(* C16: a sentence returned for a start word that has a continuation in    *)
(* the store begins with that start word, followed by one of its suffixes. *)
(***************************************************************************)
C16_StartWordKept ==
    ( /\ pc = "done"
      /\ args.start_word # None
      /\ SelectByPrefix(conn, Lower(args.start_word)) # {} )
    => /\ Len(word_queue) >= 2
       /\ Lower(word_queue[1]) = Lower(args.start_word)
       /\ \E row \in SelectByPrefix(conn, Lower(args.start_word)) :
             row.suffix = word_queue[2]

(***************************************************************************)
(* C15: once the argument handling is through, every flag and every flag   *)
(* value has been removed from args, so that args[0], the source, is the   *)
(* input file, for every combination and order of the six flags.           *)
(***************************************************************************)
C15_FlagsRemoved ==
    cli_pc = "parsed" =>
        /\ cli_opts.source = InputFile
        /\ cli_args = <<InputFile>>

(***************************************************************************)
(* C13: a match made only of digits, periods, commas, colons and           *)
(* semicolons records nothing and leaves the prefix window as it was: the  *)
(* table built from a corpus is the table built from its matches with      *)
(* those matches taken out.                                                *)
(***************************************************************************)
Degenerate(word) == Range(word) \subseteq {"1", ".", ",", ":", ";"}

RECURSIVE WithoutDegenerate(_)
WithoutDegenerate(ms) ==
    IF ms = <<>> THEN <<>>
    ELSE (IF Degenerate(ms[1]) THEN <<>> ELSE <<Lower(ms[1])>>)
         \o WithoutDegenerate(Tail(ms))

RECURSIVE RecordAll(_, _, _)
\* every (prefix, suffix) recorded for the words ws, each of them a real word
RecordAll(ws, prefixes, L) ==
    IF ws = <<>> THEN <<>>
    ELSE NewSuffixes(prefixes, ws[1])
         \o RecordAll(Tail(ws), AdvanceWindow(prefixes, ws[1], L), L)

TableOf(ws, L) == WithProbabilities(GroupCount(RecordAll(ws, <<>>, L)))

C13_DegenerateTokensSkipped ==
    ChainBuilt => conn.chain = TableOf(WithoutDegenerate(Tokenize(corpus)), lookback)

C13_Witness ==
    /\ ChainBuilt
    /\ LET T == Tokenize(corpus)
       IN  \E i \in 2..(Len(T) - 1) :
              /\ Degenerate(T[i])
              /\ ~Degenerate(T[i - 1])
              /\ ~Degenerate(T[i + 1])
              /\ \E row \in conn.chain :
                    row.prefix = Lower(T[i - 1]) /\ row.suffix = Lower(T[i + 1])

(***************************************************************************)
(* C14: from the moment the chain is ready until the sentence is returned, *)
(* through direct choose_next_word calls, the growth loop and every retry, *)
(* no step changes the store: its rows, their num_occurrences and their    *)
(* probability are the same after the step as before it, in the connection *)
(* and on disk.                                                            *)
(***************************************************************************)
C14_GenerationOnlyReads ==
    [][(pc \in {"ready", "seed", "grow", "gate"}) => (conn' = conn /\ disk' = disk)]_vars

C14_Witness ==
    /\ pc = "done"
    /\ retried
    /\ Len(word_queue) >= 2
    /\ conn.chain # {}
    /\ \E row \in conn.chain : row.num_occurrences >= 2

(***************************************************************************)
(* C17: on the store the program has at hand, choose_next_word(prefix)     *)
(* returns None exactly when no row has that prefix: with at least one row *)
(* the accumulated probabilities reach every random value of [0, 1), in    *)
(* whatever order the rows come, and a suffix of the prefix is returned.   *)
(***************************************************************************)
C17_SamplerTotal ==
    sampled.called =>
        LET suffixes == {row.suffix : row \in {r \in conn.chain : r.prefix = sampled.prefix}}
        IN  IF suffixes = {}
            THEN sampled.result = None
            ELSE sampled.result \in suffixes

C17_Witness ==
    /\ sampled.called
    /\ sampled.result # None
    /\ Cardinality({row \in conn.chain : row.prefix = sampled.prefix}) >= 2
    /\ \E row \in conn.chain :
          /\ row.prefix = sampled.prefix
          /\ row.suffix = sampled.result
          /\ 2 * row.probability[1] < row.probability[2]

(***************************************************************************)
(* C18: the built table is closed under shortening a prefix: for a row     *)
(* whose prefix has several tokens there is a row with the prefix less its *)
(* first token and the same suffix, counted at least as often.  And the    *)
(* growth loop breaks off without a suggestion only at a token that no     *)
(* real token follows anywhere in the corpus.                              *)
(***************************************************************************)
DropFirstToken(prefix) ==
    LET space == CHOOSE i \in 1..Len(prefix) :
                    prefix[i] = " " /\ \A j \in 1..(i - 1) : prefix[j] # " "
    IN  SubSeq(prefix, space + 1, Len(prefix))

ShorteningClosed(chain) ==
    \A row \in chain :
        Contains(row.prefix, " ") =>
            \E short \in chain :
                /\ short.prefix = DropFirstToken(row.prefix)
                /\ short.suffix = row.suffix
                /\ short.num_occurrences >= row.num_occurrences

Stalled == pc = "gate" /\ ~Contains(Last(word_queue), ".")

C18_ShorterPrefixesStored ==
    /\ ChainBuilt => ShorteningClosed(conn.chain)
    /\ Stalled => \A i \in 1..(Len(RealTokens) - 1) : RealTokens[i] # Last(word_queue)

C18_Witness ==
    /\ ChainBuilt
    /\ Stalled
    /\ \E row \in conn.chain : Contains(row.prefix, " ")
    /\ \E i \in 1..Len(RealTokens) : RealTokens[i] = Last(word_queue)

(***************************************************************************)
(* C19: whatever the value of WRITE_TO_DB_AFTER_NUM_WORDS, every recorded  *)
(* (prefix, suffix) occurrence reaches the temporary table exactly once:   *)
(* during the scan the rows already written followed by those still        *)
(* unsaved are the occurrences recorded so far, each once; the table built *)
(* in the end is the one table of the corpus, and the temporary table is   *)
(* gone.                                                                   *)
(***************************************************************************)
C19_BatchingChangesNothing ==
    /\ (rebuilt /\ pc = "scan") =>
          /\ conn.temp_exists
          /\ conn.temp \o unsaved_suffixes =
                RecordAll(WithoutDegenerate(SubSeq(matches, 1, counter)), <<>>, lookback)
    /\ ChainBuilt =>
          /\ conn.chain = TableOf(WithoutDegenerate(matches), lookback)
          /\ ~conn.temp_exists /\ conn.temp = <<>>
          /\ ~disk.temp_exists /\ disk.temp = <<>>

C19_Witness ==
    /\ ChainBuilt
    /\ write_every = 2
    /\ Len(matches) > 2 * write_every
    /\ \E row \in conn.chain : row.num_occurrences >= 2

====
